---- MODULE Spec2Model ----
(***************************************************************************)
(* MCPClient of backend/app/services/mcp_client.py as a state machine.     *)
(*                                                                         *)
(* The client is one object with two dictionaries, active_connections and  *)
(* server_processes, driven by coroutines on one asyncio event loop.  A    *)
(* coroutine runs without interruption from one await that suspends to the *)
(* next, so every action below is the code between two such awaits of one  *)
(* call.  Server subprocesses, their pipes and the temp directories are    *)
(* the environment the calls act on.                                       *)
(***************************************************************************)
EXTENDS Naturals, Sequences, FiniteSets, TLC

VARIABLES
    active_connections,  \* MCPClient.active_connections: server id -> connection
    server_processes,    \* MCPClient.server_processes: server id -> pid (0: no key)
    procs,               \* every subprocess spawned so far, by pid
    dirs,                \* every temp directory made so far: does it still exist
    task                 \* the frame of each coroutine: where it is in its call

vars == <<active_connections, server_processes, procs, dirs, task>>

\* ------------------------------------------------------------------ bounds

ServerIds == {1, 2}
Tasks == {"t1", "t2"}
MaxProcs == 2
MaxDirs == 2
MaxReq == 3

\* ------------------------------------------------------- program constants

\* @retry(stop=stop_after_attempt(3), ...)
StopAfterAttempt == 3
InitializeId == 1
ListToolsId == 2
ToolsCallId == 3

\* The descriptors connect_to_server reads: package_manager, discovered_from,
\* whether url starts with "http", whether repository_url is set.
Servers ==
    [package_manager : {"npm", "pip", "none"},
     discovered_from : {"github", "manual"},
     url_http : BOOLEAN,
     repository_url : BOOLEAN]

\* Strategy with the test of discovered_from moved before the tests of
\* package_manager.
StrategyGithubFirst(server) ==
    IF server.discovered_from = "github" THEN "github"
    ELSE IF server.package_manager = "npm" THEN "npm"
    ELSE IF server.package_manager = "pip" THEN "pip"
    ELSE IF server.url_http THEN "http"
    ELSE "unknown"

\* The branch connect_to_server and _connect_generic_server take.
Strategy(server) ==
    IF server.package_manager = "npm" THEN "npm"
    ELSE IF server.package_manager = "pip" THEN "pip"
    ELSE IF server.discovered_from = "github" THEN "github"
    ELSE IF server.url_http THEN "http"
    ELSE "unknown"

StdioTypes == {"npm", "pip", "github"}

\* ------------------------------------------------------------------ values

NoConnection == [type |-> "none", process |-> 0, temp_dir |-> 0]

Connected(sid) == active_connections[sid].type # "none"

\* A coroutine's frame.  pc is where it is suspended ("idle": in no call,
\* "done": the call has ended and the caller holds what it gave back); present
\* is whether the server id had a connection when the call began; outcome is
\* "return" or "raise", value the returned value or the exception's class,
\* line the serial of the response line the value was taken from; log holds
\* what each attempt of execute_tool ended with.  For list_tools and
\* get_server_capabilities, served is the tool list the server's answer
\* carried, tools the list in the returned value and tool_count its
\* "tool_count".  For connect_to_server, server is the descriptor it was
\* called with.
NoServer ==
    [package_manager |-> "none", discovered_from |-> "none", url_http |-> FALSE,
     repository_url |-> FALSE]

IdleFrame ==
    [pc |-> "idle", op |-> "none", sid |-> 0, server |-> NoServer,
     type |-> "none", process |-> 0,
     temp_dir |-> 0, log |-> <<>>, todo |-> {}, present |-> FALSE, conc |-> FALSE,
     outcome |-> "none", value |-> "none", line |-> 0,
     served |-> <<>>, tools |-> <<>>, tool_count |-> 0]

\* asyncio.create_subprocess_exec(..., stdin=PIPE, stdout=PIPE): a running
\* process.  nreq counts the requests written to its stdin, which numbers
\* them; ids is the set of the "id" values those requests carried; pipe holds
\* the requests whose response line has not been read from its stdout, oldest
\* first; signalled says that terminate() was called on it.  sid and connected
\* are bookkeeping of the model: the server it was spawned for and whether
\* its connect returned True.
NewProcess(sid) ==
    [alive |-> TRUE, pipe |-> <<>>, nreq |-> 0, ids |-> {}, signalled |-> FALSE,
     sid |-> sid, connected |-> FALSE]

\* An exited process: its pipes are closed.
Exited(proc) ==
    [alive |-> FALSE, pipe |-> <<>>, nreq |-> 0, ids |-> {}, signalled |-> FALSE,
     sid |-> proc.sid, connected |-> FALSE]

Init ==
    /\ active_connections = [s \in ServerIds |-> NoConnection]
    /\ server_processes = [s \in ServerIds |-> 0]
    /\ procs = <<>>
    /\ dirs = <<>>
    /\ task = [t \in Tasks |-> IdleFrame]

\* ------------------------------------------------------------ call frames

RegistryOps == {"connect_to_server", "disconnect_from_server", "cleanup"}

InCall(u) == task[u].pc \notin {"idle", "done"}

\* Coroutine u is inside a connect or disconnect of the server that t's call
\* (also a connect or disconnect) is about.
Overlaps(u, t, op, sid) ==
    /\ u # t
    /\ op \in RegistryOps
    /\ InCall(u)
    /\ task[u].op \in RegistryOps
    /\ task[u].sid = sid

Marked(t, f) ==
    [f EXCEPT !.conc = f.conc \/ \E v \in Tasks : Overlaps(v, t, f.op, f.sid)]

\* The frame of a call of op on sid as it begins.
Frame(op, sid) ==
    [IdleFrame EXCEPT !.op = op, !.sid = sid, !.present = Connected(sid)]

\* Coroutine t suspends at an await with frame f.
Suspend(t, f) ==
    task' = [u \in Tasks |->
                IF u = t THEN Marked(t, f)
                ELSE IF Overlaps(u, t, f.op, f.sid)
                     THEN [task[u] EXCEPT !.conc = TRUE]
                     ELSE task[u]]

\* Coroutine t's call ends.
Done(t, f, outcome, value, line) ==
    task' = [u \in Tasks |->
                IF u = t
                THEN [Marked(t, f) EXCEPT !.pc = "done", !.outcome = outcome,
                                          !.value = value, !.line = line]
                ELSE IF Overlaps(u, t, f.op, f.sid)
                     THEN [task[u] EXCEPT !.conc = TRUE]
                     ELSE task[u]]

\* A coroutine that returns hands its result to the awaiting caller, and
\* cleanup's loop goes on to its next id, in the same step of the event loop:
\* nothing else runs in between.
Urgent == \E u \in Tasks : task[u].pc \in {"done", "cleanup_loop"}

\* Coroutine t is suspended at pc and the event loop is free to resume it.
At(t, pc) == task[t].pc = pc /\ ~Urgent

Returned(t, op) == task[t].pc = "done" /\ task[t].op = op

\* The awaiting caller takes the result; the coroutine is free for another call.
Collect(t) ==
    /\ task[t].pc = "done"
    /\ task' = [task EXCEPT ![t] = IdleFrame]
    /\ UNCHANGED <<active_connections, server_processes, procs, dirs>>

\* ------------------------------------------------------------ environment

ResponseKinds == {"result", "error", "neither", "malformed"}

\* The server process exits (by itself, or on the SIGTERM it was sent): the
\* event loop sets its returncode and its pipes reach end of file.
ProcessExit(p) ==
    /\ ~Urgent
    /\ procs[p].alive
    /\ procs' = [procs EXCEPT ![p] = Exited(@)]
    /\ UNCHANGED <<active_connections, server_processes, dirs, task>>

\* process.terminate(): SIGTERM is delivered, and the process exits when and
\* if it chooses to (ProcessExit).
Terminated(ps, p) == [ps EXCEPT ![p].signalled = TRUE]

\* CallTimedOut with the process terminated, as the handshake's handler does.
CallTimedOutTerminates(ps, p) == Terminated(ps, p)

\* The TimeoutError of wait_for in _list_tools_stdio and _execute_tool_stdio
\* reaches their "except Exception" clauses, which log it and return [] or
\* raise it again: nothing is done to the process.
CallTimedOut(ps, p) == ps

\* Killed with the kill left out: the process is as it was.
NotKilled(ps, p) == ps

\* process.kill(): SIGKILL ends the process.
Killed(ps, p) == [ps EXCEPT ![p] = Exited(@)]

\* stdin.write(json.dumps(message) + "\n") and drain() on a running process.
Written(ps, p, id) ==
    [ps EXCEPT ![p].pipe = Append(@, ps[p].nreq + 1), ![p].nreq = @ + 1,
               ![p].ids = @ \cup {id}]

CanWrite(p) == procs[p].alive /\ procs[p].nreq < MaxReq

\* stdout.readline() gives the next line the server wrote: its answer to one
\* of the requests still unanswered (the server answers in order, and may
\* never answer a request), a JSON object with a "result" key, with an
\* "error" key, with neither, or a line that is not JSON.  It gives b"" when
\* the process has exited, and wait_for raises TimeoutError when the server
\* has written nothing in time.
Lines(p) ==
    IF procs[p].alive
    THEN [i : 1..Len(procs[p].pipe), kind : ResponseKinds]
    ELSE {}

LineNo(p, l) == procs[p].pipe[l.i]

Read(ps, p, l) == [ps EXCEPT ![p].pipe = SubSeq(@, l.i + 1, Len(@))]

AtEof(p) == ~procs[p].alive
TimedOut(p) == procs[p].alive

\* Another coroutine is suspended in readline() on process p's stdout: a
\* second readline() that finds no buffered line raises RuntimeError.
ReadPcs == {"handshake", "list_read", "exec_read"}
OtherReader(t, p) ==
    \E u \in Tasks \ {t} : task[u].pc \in ReadPcs /\ task[u].process = p

\* ---------------------------------------------------------------- connect

\* The exit status of an install or clone command, as the code tells them
\* apart: returncode 0 or not.  A connect's frame keeps in log the statuses of
\* the commands it has run.
ExitStatuses == {"0", "nonzero"}

\* Registered with the assignment left out.
NotRegistered(conns, sid, type, process, temp_dir) == conns

\* self.active_connections[server.id] = {"type": ..., "process": ...,
\* "temp_dir": ...}
Registered(conns, sid, type, process, temp_dir) ==
    [conns EXCEPT ![sid] =
        [type |-> type, process |-> process, temp_dir |-> temp_dir]]

\* connect_to_server up to the first await of the branch it takes.
connect_to_server(t, sid, server) ==
    /\ At(t, "idle")
    /\ LET f == [Frame("connect_to_server", sid) EXCEPT !.server = server]
           s == Strategy(server)
       IN  \/ /\ s = "npm"
              /\ Len(dirs) < MaxDirs
              /\ dirs' = Append(dirs, TRUE)
              /\ Suspend(t, [f EXCEPT !.type = "npm", !.temp_dir = Len(dirs) + 1,
                                      !.pc = "install"])
              /\ UNCHANGED <<active_connections, server_processes, procs>>
           \/ /\ s = "pip"
              /\ Suspend(t, [f EXCEPT !.type = "pip", !.pc = "install"])
              /\ UNCHANGED <<active_connections, server_processes, procs, dirs>>
           \/ /\ s = "github"
              /\ ~server.repository_url
              /\ Done(t, [f EXCEPT !.type = "github"], "return", "False", 0)
              /\ UNCHANGED <<active_connections, server_processes, procs, dirs>>
           \/ /\ s = "github"
              /\ server.repository_url
              /\ Len(dirs) < MaxDirs
              /\ dirs' = Append(dirs, TRUE)
              /\ Suspend(t, [f EXCEPT !.type = "github", !.temp_dir = Len(dirs) + 1,
                                      !.pc = "clone"])
              /\ UNCHANGED <<active_connections, server_processes, procs>>
           \/ /\ s = "http"
              /\ Suspend(t, [f EXCEPT !.type = "http", !.pc = "probe"])
              /\ UNCHANGED <<active_connections, server_processes, procs, dirs>>
           \/ /\ s = "unknown"
              /\ Done(t, f, "return", "False", 0)
              /\ UNCHANGED <<active_connections, server_processes, procs, dirs>>

\* _connect_npm_server and _connect_pip_server from the end of the install to
\* the await of the handshake's response.
connect_install(t) ==
    /\ At(t, "install")
    /\ LET f == task[t]
           pid == Len(procs) + 1
       IN  \/ \* returncode != 0: return False
              /\ Done(t, [f EXCEPT !.log = <<"nonzero">>], "return", "False", 0)
              /\ UNCHANGED <<active_connections, server_processes, procs, dirs>>
           \/ \* returncode == 0, and the spawn raised: return False
              /\ Done(t, [f EXCEPT !.log = <<"0">>], "return", "False", 0)
              /\ UNCHANGED <<active_connections, server_processes, procs, dirs>>
           \/ \* returncode == 0: spawn, record the process, send initialize
              /\ Len(procs) < MaxProcs
              /\ procs' = Written(Append(procs, NewProcess(f.sid)), pid, InitializeId)
              /\ server_processes' = [server_processes EXCEPT ![f.sid] = pid]
              /\ Suspend(t, [f EXCEPT !.pc = "handshake", !.process = pid,
                                      !.log = <<"0">>])
              /\ UNCHANGED <<active_connections, dirs>>

\* The rest of _connect_npm_server and _connect_pip_server.
connect_handshake(t) ==
    /\ At(t, "handshake")
    /\ LET f == task[t]
           p == f.process
       IN  \/ \E l \in Lines(p) :
                 /\ l.kind = "result"
                 /\ active_connections' =
                        Registered(active_connections, f.sid, f.type, p, f.temp_dir)
                 /\ procs' = [Read(procs, p, l) EXCEPT ![p].connected = TRUE]
                 /\ Done(t, f, "return", "True", LineNo(p, l))
                 /\ UNCHANGED <<server_processes, dirs>>
           \/ \* an error, neither key, or json.loads raised: return False
              \E l \in Lines(p) :
                 /\ l.kind # "result"
                 /\ procs' = Read(procs, p, l)
                 /\ Done(t, f, "return", "False", LineNo(p, l))
                 /\ UNCHANGED <<active_connections, server_processes, dirs>>
           \/ /\ AtEof(p)
              /\ Done(t, f, "return", "False", 0)
              /\ UNCHANGED <<active_connections, server_processes, procs, dirs>>
           \/ /\ TimedOut(p)
              /\ procs' = Terminated(procs, p)
              /\ Done(t, f, "return", "False", 0)
              /\ UNCHANGED <<active_connections, server_processes, dirs>>

\* _connect_github_server from the end of git clone to the dependency install.
connect_clone(t) ==
    /\ At(t, "clone")
    /\ LET f == task[t]
       IN  \/ \* returncode != 0
              /\ Done(t, [f EXCEPT !.log = <<"nonzero">>], "return", "False", 0)
              /\ UNCHANGED <<active_connections, server_processes, procs, dirs>>
           \/ \* neither package.json nor requirements.txt
              /\ Done(t, [f EXCEPT !.log = <<"0">>], "return", "False", 0)
              /\ UNCHANGED <<active_connections, server_processes, procs, dirs>>
           \/ /\ Suspend(t, [f EXCEPT !.pc = "deps", !.log = <<"0">>])
              /\ UNCHANGED <<active_connections, server_processes, procs, dirs>>

\* The rest of _connect_github_server: the install's exit status is not read,
\* and no initialize is sent.
connect_deps(t) ==
    /\ At(t, "deps")
    /\ \E status \in ExitStatuses :
          LET f == [task[t] EXCEPT !.log = Append(@, status)]
              pid == Len(procs) + 1
          IN  \/ /\ Len(procs) < MaxProcs
                 /\ procs' = Append(procs, [NewProcess(f.sid) EXCEPT
                                               !.connected = TRUE])
                 /\ server_processes' = [server_processes EXCEPT ![f.sid] = pid]
                 /\ active_connections' =
                        Registered(active_connections, f.sid, "github", pid,
                                   f.temp_dir)
                 /\ Done(t, [f EXCEPT !.process = pid], "return", "True", 0)
                 /\ UNCHANGED dirs
              \/ \* the spawn raised: return False
                 /\ Done(t, f, "return", "False", 0)
                 /\ UNCHANGED <<active_connections, server_processes, procs,
                                dirs>>

\* What GET {url}/health can end with: status 200, another status, or an
\* exception of the request (refused, timed out, ...).
ProbeAnswers == {"200", "other", "raised"}

\* _connect_http_server without the test of the status: every answer connects.
ConnectsOn200Any(answer) == answer \in {"200", "other"}

\* _connect_http_server's `if response.status == 200`.
ConnectsOn200(answer) == answer = "200"

\* The rest of _connect_http_server: the answer to GET {url}/health, which
\* the frame's log keeps.
connect_probe(t) ==
    /\ At(t, "probe")
    /\ \E answer \in ProbeAnswers :
          LET f == [task[t] EXCEPT !.log = <<answer>>]
          IN  IF ConnectsOn200(answer)
              THEN /\ active_connections' =
                          Registered(active_connections, f.sid, "http", 0, 0)
                   /\ Done(t, f, "return", "True", 0)
                   /\ UNCHANGED <<server_processes, procs, dirs>>
              ELSE /\ Done(t, f, "return", "False", 0)
                   /\ UNCHANGED <<active_connections, server_processes, procs,
                                  dirs>>

\* ------------------------------------------------------------- disconnect

\* The end of one disconnect_from_server: of the call, or of one round of
\* cleanup's loop.
Finish(t, f) ==
    IF f.op = "cleanup"
    THEN Suspend(t, [f EXCEPT !.pc = "cleanup_loop"])
    ELSE Done(t, f, "return", "None", 0)

\* LoggedAndReturned without the except clause: the exception reaches the
\* caller.
Propagated(t, f) == Done(t, f, "raise", "Exception", 0)

\* LoggedAndReturned without the except clause: the KeyError of del reaches
\* the caller.
KeyErrorRaised(t, f) == Done(t, f, "raise", "KeyError", 0)

\* LoggedAndReturned without the except clause, inside cleanup: the exception
\* reaches cleanup's own except clause, which logs it, and cleanup returns
\* with the rest of its ids not visited.
AbortedLoop(t, f) == Done(t, f, "return", "None", 0)

\* disconnect_from_server's `except Exception`: the error is logged and the
\* function ends.
LoggedAndReturned(t, f) == Finish(t, f)

\* disconnect_from_server up to the await of process.wait(), with frame f.
disconnect_begin(t, f) ==
    LET sid == f.sid
        c == active_connections[sid]
        g == [f EXCEPT !.process = c.process, !.temp_dir = c.temp_dir]
    IN  \/ \* no connection: only the server_processes key is dropped
           /\ ~Connected(sid)
           /\ server_processes' = [server_processes EXCEPT ![sid] = 0]
           /\ Finish(t, f)
           /\ UNCHANGED <<active_connections, procs, dirs>>
        \/ \* an http connection owns nothing
           /\ c.type = "http"
           /\ active_connections' = [active_connections EXCEPT ![sid] = NoConnection]
           /\ server_processes' = [server_processes EXCEPT ![sid] = 0]
           /\ Finish(t, f)
           /\ UNCHANGED <<procs, dirs>>
        \/ \* process.terminate(), then await process.wait()
           /\ c.type \in StdioTypes
           /\ procs[c.process].alive
           /\ procs' = Terminated(procs, c.process)
           /\ Suspend(t, [g EXCEPT !.pc = "wait"])
           /\ UNCHANGED <<active_connections, server_processes, dirs>>
        \/ \* process.terminate() on a process the loop has seen exit raises
           \* ProcessLookupError, which the except clause logs
           /\ c.type \in StdioTypes
           /\ ~procs[c.process].alive
           /\ LoggedAndReturned(t, g)
           /\ UNCHANGED <<active_connections, server_processes, procs, dirs>>

\* Removed with the root of the temp directories as its argument: every
\* directory goes.
RemovedAll(ds, d) == [i \in 1..Len(ds) |-> FALSE]

\* shutil.rmtree(temp_dir, ignore_errors=True)
Removed(ds, d) == IF d = 0 THEN ds ELSE [ds EXCEPT ![d] = FALSE]

\* The rest of disconnect_from_server, from the end of the wait.
disconnect_wait(t) ==
    /\ At(t, "wait")
    /\ LET f == task[t]
           sid == f.sid
       IN  /\ procs' = IF procs[f.process].alive
                       THEN Killed(procs, f.process)  \* TimeoutError: process.kill()
                       ELSE procs
           /\ dirs' = Removed(dirs, f.temp_dir)
           /\ \/ /\ Connected(sid)
                 /\ active_connections' =
                        [active_connections EXCEPT ![sid] = NoConnection]
                 /\ server_processes' = [server_processes EXCEPT ![sid] = 0]
                 /\ Finish(t, f)
              \/ \* del raises KeyError, which the except clause logs
                 /\ ~Connected(sid)
                 /\ UNCHANGED <<active_connections, server_processes>>
                 /\ LoggedAndReturned(t, f)

disconnect_from_server(t, sid) ==
    /\ At(t, "idle")
    /\ disconnect_begin(t, Frame("disconnect_from_server", sid))

\* The caller of a disconnect_from_server that has just returned calls it
\* again on the same server id.
disconnect_twice(t) ==
    /\ Returned(t, "disconnect_from_server")
    /\ disconnect_begin(t, Frame("disconnect_from_server", task[t].sid))

\* ---------------------------------------------------------------- cleanup

\* One round of cleanup's loop over the ids that were connected when it began.
cleanup_next(t, f) ==
    \/ /\ f.todo = {}
       /\ Done(t, f, "return", "None", 0)
       /\ UNCHANGED <<active_connections, server_processes, procs, dirs>>
    \/ \E sid \in f.todo :
          disconnect_begin(t, [f EXCEPT !.sid = sid, !.todo = @ \ {sid},
                                        !.present = Connected(sid),
                                        !.process = 0, !.temp_dir = 0])

cleanup(t) ==
    /\ At(t, "idle")
    /\ cleanup_next(t, [IdleFrame EXCEPT !.op = "cleanup",
                            !.todo = {sid \in ServerIds : Connected(sid)}])

cleanup_loop(t) ==
    /\ task[t].pc = "cleanup_loop"
    /\ cleanup_next(t, task[t])

\* ------------------------------------------------------------- list_tools

\* What get_server_capabilities makes of list_tools' list, and list_tools of
\* its own: op is the call the frame belongs to.
ListResult(t, f, value, line) ==
    IF f.op = "get_server_capabilities"
    THEN Done(t, [f EXCEPT !.tool_count = Len(f.tools)], "return", "connected",
              line)
    ELSE Done(t, f, "return", value, line)

\* The tool lists a server's answer to tools/list can carry.
ToolLists == {<<>>, <<"read_file">>, <<"read_file", "write_file">>}

\* _list_tools_http reading "tools" at the top of the body instead of under
\* "result": it finds none.
HttpToolsAtTopLevel(answer, served) == <<>>

\* What _list_tools_http returns on a 200 answer whose body carries served,
\* and on an exception of the request.
HttpTools(answer, served) == IF answer = "200" THEN served ELSE <<>>

\* list_tools, and get_server_capabilities which calls it after the same
\* test, up to the await of the response line.
list_tools_begin(t, f) ==
    LET c == active_connections[f.sid]
        p == c.process
    IN  \/ \* MCPServerConnectionError, which list_tools' own except clause
           \* turns into MCPToolExecutionError and get_server_capabilities'
           \* into a returned {"connected": False, "error": ...}
           /\ ~Connected(f.sid)
           /\ IF f.op = "get_server_capabilities"
              THEN Done(t, f, "return", "not_connected", 0)
              ELSE Done(t, f, "raise", "MCPToolExecutionError", 0)
           /\ UNCHANGED <<active_connections, server_processes, procs, dirs>>
        \/ \* _list_tools_http: the tools of a 200 answer, [] when the request
           \* raised
           /\ c.type = "http"
           /\ \E answer \in {"200", "raised"}, served \in ToolLists :
                 /\ answer = "raised" => served = <<>>
                 /\ ListResult(t, [f EXCEPT !.log = <<answer>>,
                                            !.served = served,
                                            !.tools = HttpTools(answer, served)],
                               IF answer = "200" THEN "tools" ELSE "[]", 0)
           /\ UNCHANGED <<active_connections, server_processes, procs, dirs>>
        \/ \* _list_tools_http falls off its end on another status: None, whose
           \* len() get_server_capabilities' except clause catches
           /\ c.type = "http"
           /\ LET g == [f EXCEPT !.log = <<"other">>]
              IN  IF f.op = "get_server_capabilities"
                  THEN Done(t, g, "return", "not_connected", 0)
                  ELSE Done(t, g, "return", "None", 0)
           /\ UNCHANGED <<active_connections, server_processes, procs, dirs>>
        \/ \* _list_tools_stdio writes its request
           /\ c.type \in StdioTypes
           /\ CanWrite(p)
           /\ procs' = Written(procs, p, ListToolsId)
           /\ Suspend(t, [f EXCEPT !.pc = "list_read", !.process = p])
           /\ UNCHANGED <<active_connections, server_processes, dirs>>
        \/ \* readline() raises RuntimeError, caught: []
           /\ c.type \in StdioTypes
           /\ CanWrite(p)
           /\ OtherReader(t, p)
           /\ procs' = Written(procs, p, ListToolsId)
           /\ ListResult(t, [f EXCEPT !.process = p], "[]", 0)
           /\ UNCHANGED <<active_connections, server_processes, dirs>>
        \/ \* the write to an exited process is lost
           /\ c.type \in StdioTypes
           /\ ~procs[p].alive
           /\ Suspend(t, [f EXCEPT !.pc = "list_read", !.process = p])
           /\ UNCHANGED <<active_connections, server_processes, procs, dirs>>
        \/ \* or drain() raises ConnectionResetError: return []
           /\ c.type \in StdioTypes
           /\ ~procs[p].alive
           /\ ListResult(t, [f EXCEPT !.process = p], "[]", 0)
           /\ UNCHANGED <<active_connections, server_processes, procs, dirs>>

list_tools(t, sid) ==
    /\ At(t, "idle")
    /\ list_tools_begin(t, Frame("list_tools", sid))

get_server_capabilities(t, sid) ==
    /\ At(t, "idle")
    /\ list_tools_begin(t, Frame("get_server_capabilities", sid))

\* The rest of _list_tools_stdio.
list_tools_read(t) ==
    /\ At(t, "list_read")
    /\ LET f == task[t]
           p == f.process
       IN  \/ \E l \in Lines(p) :
                 /\ procs' = Read(procs, p, l)
                 /\ ListResult(t, f, IF l.kind = "result" THEN "tools" ELSE "[]",
                               LineNo(p, l))
                 /\ UNCHANGED <<active_connections, server_processes, dirs>>
           \/ \* b"": []
              /\ AtEof(p)
              /\ ListResult(t, [f EXCEPT !.log = <<"eof">>], "[]", 0)
              /\ UNCHANGED <<active_connections, server_processes, procs, dirs>>
           \/ \* TimeoutError caught: []
              /\ TimedOut(p)
              /\ procs' = CallTimedOut(procs, p)
              /\ ListResult(t, [f EXCEPT !.log = <<"timeout">>], "[]", 0)
              /\ UNCHANGED <<active_connections, server_processes, dirs>>

\* ----------------------------------------------------------- execute_tool

\* AttemptFailed with stop_after_attempt off by one: the call gives up after
\* the second failed attempt.
AttemptFailedStopsEarly(t, f, what) ==
    LET g == [f EXCEPT !.log = Append(@, what)]
    IN  IF Len(g.log) < StopAfterAttempt - 1
        THEN Suspend(t, [g EXCEPT !.pc = "backoff"])
        ELSE Done(t, g, "raise", "RetryError", 0)

\* AttemptFailed with stop_after_attempt one too large: a fourth attempt
\* follows three failed ones.
AttemptFailedOnceMore(t, f, what) ==
    LET g == [f EXCEPT !.log = Append(@, what)]
    IN  IF Len(g.log) < StopAfterAttempt + 1
        THEN Suspend(t, [g EXCEPT !.pc = "backoff"])
        ELSE Done(t, g, "raise", "RetryError", 0)

\* An attempt raised: execute_tool's except clause raises
\* MCPToolExecutionError, and tenacity, which retries on any exception, sleeps
\* and calls again, or raises RetryError after the last attempt.
AttemptFailed(t, f, what) ==
    LET g == [f EXCEPT !.log = Append(@, what)]
    IN  IF Len(g.log) < StopAfterAttempt
        THEN Suspend(t, [g EXCEPT !.pc = "backoff"])
        ELSE Done(t, g, "raise", "RetryError", 0)

AttemptReturned(t, f, what, value, line) ==
    Done(t, [f EXCEPT !.log = Append(@, what)], "return", value, line)

\* One attempt of execute_tool up to the await of the response line.
execute_attempt(t, f) ==
    LET c == active_connections[f.sid]
        p == c.process
    IN  \/ /\ ~Connected(f.sid)
           /\ AttemptFailed(t, f, "not_connected")
           /\ UNCHANGED <<active_connections, server_processes, procs, dirs>>
        \/ \* _execute_tool_http: status 200
           /\ c.type = "http"
           /\ AttemptReturned(t, f, "result", "result", 0)
           /\ UNCHANGED <<active_connections, server_processes, procs, dirs>>
        \/ \* another status, or the request raised
           /\ c.type = "http"
           /\ AttemptFailed(t, f, "transport")
           /\ UNCHANGED <<active_connections, server_processes, procs, dirs>>
        \/ \* _execute_tool_stdio writes its request
           /\ c.type \in StdioTypes
           /\ CanWrite(p)
           /\ procs' = Written(procs, p, ToolsCallId)
           /\ Suspend(t, [f EXCEPT !.pc = "exec_read", !.process = p])
           /\ UNCHANGED <<active_connections, server_processes, dirs>>
        \/ \* readline() raises RuntimeError
           /\ c.type \in StdioTypes
           /\ CanWrite(p)
           /\ OtherReader(t, p)
           /\ procs' = Written(procs, p, ToolsCallId)
           /\ AttemptFailed(t, [f EXCEPT !.process = p], "transport")
           /\ UNCHANGED <<active_connections, server_processes, dirs>>
        \/ \* the write to an exited process is lost
           /\ c.type \in StdioTypes
           /\ ~procs[p].alive
           /\ Suspend(t, [f EXCEPT !.pc = "exec_read", !.process = p])
           /\ UNCHANGED <<active_connections, server_processes, procs, dirs>>
        \/ \* or drain() raises ConnectionResetError
           /\ c.type \in StdioTypes
           /\ ~procs[p].alive
           /\ AttemptFailed(t, [f EXCEPT !.process = p], "transport")
           /\ UNCHANGED <<active_connections, server_processes, procs, dirs>>

execute_tool(t, sid) ==
    /\ At(t, "idle")
    /\ execute_attempt(t, Frame("execute_tool", sid))

\* tenacity's sleep is over: the next attempt.
execute_retry(t) ==
    /\ At(t, "backoff")
    /\ execute_attempt(t, task[t])

\* The rest of _execute_tool_stdio.
execute_read(t) ==
    /\ At(t, "exec_read")
    /\ LET f == task[t]
           p == f.process
       IN  \/ \E l \in Lines(p) :
                 /\ procs' = Read(procs, p, l)
                 /\ CASE l.kind = "result" ->
                            AttemptReturned(t, f, "result", "result", LineNo(p, l))
                      [] l.kind = "neither" ->
                            AttemptReturned(t, f, "neither", "{}", LineNo(p, l))
                      [] l.kind = "error" -> AttemptFailed(t, f, "error")
                      [] l.kind = "malformed" -> AttemptFailed(t, f, "transport")
                 /\ UNCHANGED <<active_connections, server_processes, dirs>>
           \/ \* b"": the function falls through to return {}
              /\ AtEof(p)
              /\ AttemptReturned(t, f, "eof", "{}", 0)
              /\ UNCHANGED <<active_connections, server_processes, procs, dirs>>
           \/ /\ TimedOut(p)
              /\ procs' = CallTimedOut(procs, p)
              /\ AttemptFailed(t, f, "timeout")
              /\ UNCHANGED <<active_connections, server_processes, dirs>>

\* ----------------------------------------------------------- health_check

\* health_check.  connection["process"] is an asyncio.subprocess.Process,
\* which has no poll(): _health_check_stdio's first statement raises
\* AttributeError, and its except clause returns status "error".
health_check(t, sid) ==
    /\ At(t, "idle")
    /\ LET f == Frame("health_check", sid)
           c == active_connections[sid]
       IN  \/ /\ ~Connected(sid)
              /\ Done(t, f, "return", "disconnected", 0)
           \/ /\ c.type = "http"
              /\ \E v \in {"healthy", "unhealthy", "error"} :
                    Done(t, f, "return", v, 0)
           \/ /\ c.type \in StdioTypes
              /\ Done(t, [f EXCEPT !.process = c.process], "return", "error", 0)
    /\ UNCHANGED <<active_connections, server_processes, procs, dirs>>

\* ------------------------------------------------------------------- next

\* One caller at a time: the calls of the API in sequence, on one server id.
Callers == {"t1"}
Ids == {1}

Next ==
    \/ \E t \in Callers : Collect(t)
    \/ \E t \in Callers, sid \in Ids, server \in Servers :
          connect_to_server(t, sid, server)
    \/ \E t \in Callers : connect_install(t)
    \/ \E t \in Callers : connect_handshake(t)
    \/ \E t \in Callers : connect_clone(t)
    \/ \E t \in Callers : connect_deps(t)
    \/ \E t \in Callers : connect_probe(t)
    \/ \E t \in Callers, sid \in Ids : disconnect_from_server(t, sid)
    \/ \E t \in Callers : disconnect_wait(t)
    \/ \E t \in Callers : disconnect_twice(t)
    \/ \E t \in Callers : cleanup(t)
    \/ \E t \in Callers : cleanup_loop(t)
    \/ \E t \in Callers, sid \in Ids : list_tools(t, sid)
    \/ \E t \in Callers, sid \in Ids : get_server_capabilities(t, sid)
    \/ \E t \in Callers : list_tools_read(t)
    \/ \E t \in Callers, sid \in Ids : execute_tool(t, sid)
    \/ \E t \in Callers : execute_retry(t)
    \/ \E t \in Callers : execute_read(t)
    \/ \E t \in Callers, sid \in Ids : health_check(t, sid)
    \/ \E p \in 1..Len(procs) : ProcessExit(p)

Spec == Init /\ [][Next]_vars

\* Two coroutines on the event loop, their calls interleaved at the awaits, on
\* one server id, with one descriptor of the npm branch and one of the http
\* branch.
ConcurrentServers ==
    {[package_manager |-> "npm", discovered_from |-> "manual",
      url_http |-> FALSE, repository_url |-> FALSE],
     [package_manager |-> "none", discovered_from |-> "manual",
      url_http |-> TRUE, repository_url |-> FALSE]}

NextConcurrent ==
    \/ \E t \in Tasks : Collect(t)
    \/ \E t \in Tasks, sid \in Ids, server \in ConcurrentServers :
          connect_to_server(t, sid, server)
    \/ \E t \in Tasks : connect_install(t)
    \/ \E t \in Tasks : connect_handshake(t)
    \/ \E t \in Tasks : connect_probe(t)
    \/ \E t \in Tasks, sid \in Ids : disconnect_from_server(t, sid)
    \/ \E t \in Tasks : disconnect_wait(t)
    \/ \E t \in Tasks, sid \in Ids : list_tools(t, sid)
    \/ \E t \in Tasks : list_tools_read(t)
    \/ \E t \in Tasks, sid \in Ids : execute_tool(t, sid)
    \/ \E t \in Tasks : execute_retry(t)
    \/ \E t \in Tasks : execute_read(t)
    \/ \E t \in Tasks, sid \in Ids : health_check(t, sid)
    \/ \E p \in 1..Len(procs) : ProcessExit(p)

Concurrent == Init /\ [][NextConcurrent]_vars

\* The shutdown of the application: one caller connects servers under both
\* server ids, and calls cleanup, as the lifespan handler does.  The event loop
\* resumes a coroutine whose await is over, and the wait for the process to
\* exit is over after 5 seconds at the latest.
NextShutdown ==
    \/ \E t \in Callers : Collect(t)
    \/ \E t \in Callers, sid \in ServerIds, server \in ConcurrentServers :
          connect_to_server(t, sid, server)
    \/ \E t \in Callers : connect_install(t)
    \/ \E t \in Callers : connect_handshake(t)
    \/ \E t \in Callers : connect_probe(t)
    \/ \E t \in Callers : cleanup(t)
    \/ \E t \in Callers : cleanup_loop(t)
    \/ \E t \in Callers : disconnect_wait(t)
    \/ \E p \in 1..Len(procs) : ProcessExit(p)

Shutdown ==
    /\ Init
    /\ [][NextShutdown]_vars
    /\ \A t \in Callers : WF_vars(cleanup_loop(t)) /\ WF_vars(disconnect_wait(t))

\* Two coroutines tearing down: a server is connected while nothing else runs,
\* and disconnect_from_server and cleanup are called by both coroutines, their
\* steps interleaved at the awaits, while no connect is in progress.
NoConnectInProgress ==
    \A u \in Tasks : ~(InCall(u) /\ task[u].op = "connect_to_server")

NextTeardowns ==
    \/ \E t \in Tasks : Collect(t)
    \/ \E t \in Tasks, sid \in Ids, server \in ConcurrentServers :
          /\ \A u \in Tasks : ~InCall(u)
          /\ connect_to_server(t, sid, server)
    \/ \E t \in Tasks : connect_install(t)
    \/ \E t \in Tasks : connect_handshake(t)
    \/ \E t \in Tasks : connect_probe(t)
    \/ \E t \in Tasks, sid \in Ids :
          NoConnectInProgress /\ disconnect_from_server(t, sid)
    \/ \E t \in Tasks : disconnect_wait(t)
    \/ \E t \in Tasks : NoConnectInProgress /\ cleanup(t)
    \/ \E t \in Tasks : cleanup_loop(t)
    \/ \E p \in 1..Len(procs) : ProcessExit(p)

Teardowns == Init /\ [][NextTeardowns]_vars

\* Two coroutines, each with a server id of its own: t1 calls on server id 1
\* and t2 on server id 2, their steps interleaved at the awaits.
Own(t) == IF t = "t1" THEN 1 ELSE 2

NextTwoServers ==
    \/ \E t \in Tasks : Collect(t)
    \/ \E t \in Tasks, server \in ConcurrentServers :
          connect_to_server(t, Own(t), server)
    \/ \E t \in Tasks : connect_install(t)
    \/ \E t \in Tasks : connect_handshake(t)
    \/ \E t \in Tasks : connect_probe(t)
    \/ \E t \in Tasks : disconnect_from_server(t, Own(t))
    \/ \E t \in Tasks : disconnect_wait(t)
    \/ \E t \in Tasks : list_tools(t, Own(t))
    \/ \E t \in Tasks : list_tools_read(t)
    \/ \E t \in Tasks : execute_tool(t, Own(t))
    \/ \E t \in Tasks : execute_retry(t)
    \/ \E t \in Tasks : execute_read(t)
    \/ \E t \in Tasks : health_check(t, Own(t))
    \/ \E p \in 1..Len(procs) : ProcessExit(p)

TwoServers == Init /\ [][NextTwoServers]_vars

\* ----------------------------------------------------------------- claims

Quiescent == \A t \in Tasks : task[t].pc = "idle"

Pids == 1..Len(procs)

\* C1: a connect of a server id that already has a connection returns the
\* existing success at once: it goes through no install, clone, spawn or
\* handshake step, makes no temp directory and spawns no process.
C1_ConnectIsIdempotent ==
    \A t \in Tasks :
        (task[t].op = "connect_to_server" /\ task[t].present)
            => /\ task[t].pc = "done"
               /\ task[t].value = "True"
               /\ task[t].process = 0
               /\ task[t].temp_dir = 0

\* C2: when no call is in progress, every spawned process that is alive and
\* every temp directory that exists belongs to a connection of the registry.
C2_NoLeakedResource ==
    Quiescent =>
        /\ \A p \in Pids :
              procs[p].alive => \E sid \in ServerIds : active_connections[sid].process = p
        /\ \A d \in 1..Len(dirs) :
              dirs[d] => \E sid \in ServerIds : active_connections[sid].temp_dir = d

\* C3: when a connect or disconnect of a subprocess server that overlapped
\* another connect or disconnect of the same server id has returned, and the
\* other has too, no process whose connect succeeded is alive for that id
\* without being the process of the id's registry entry.
C3_NoLostUpdate ==
    \A t \in Tasks :
        (/\ task[t].pc = "done"
         /\ task[t].op \in {"connect_to_server", "disconnect_from_server"}
         /\ task[t].type \in StdioTypes
         /\ task[t].conc
         /\ \A u \in Tasks \ {t} : ~InCall(u))
            => \A p \in Pids :
                  (procs[p].alive /\ procs[p].connected /\ procs[p].sid = task[t].sid)
                      => active_connections[task[t].sid].process = p

\* C4: no request is written to a process's stdin while a call that has
\* written a request to it is still waiting for its response line.
C4_OnePendingRequest ==
    [][\A p \in Pids :
          procs'[p].nreq > procs[p].nreq =>
              ~\E u \in Tasks : task[u].pc \in ReadPcs /\ task[u].process = p]_vars

\* C5: an execute_tool whose first two attempts timed out makes a third
\* attempt, and when that attempt reads a response with a result the call
\* returns that result; it has then made exactly 3 attempts.
C5_ThirdAttemptResult ==
    \A t \in Tasks :
        (/\ Returned(t, "execute_tool")
         /\ Len(task[t].log) >= 2
         /\ task[t].log[1] = "timeout"
         /\ task[t].log[2] = "timeout")
            => /\ Len(task[t].log) = 3
               /\ task[t].log[3] = "result" =>
                     /\ task[t].outcome = "return"
                     /\ task[t].value = "result"
                     /\ task[t].line # 0

C5_Witness ==
    \E t \in Tasks :
        /\ Returned(t, "execute_tool")
        /\ task[t].log = <<"timeout", "timeout", "result">>
        /\ task[t].outcome = "return"

\* C6: an execute_tool whose first attempt got a response with an error makes
\* no second attempt and raises MCPToolExecutionError.
C6_ErrorIsNotRetried ==
    \A t \in Tasks :
        (/\ task[t].op = "execute_tool"
         /\ Len(task[t].log) >= 1
         /\ task[t].log[1] = "error")
            => /\ task[t].pc = "done"
               /\ Len(task[t].log) = 1
               /\ task[t].outcome = "raise"
               /\ task[t].value = "MCPToolExecutionError"

\* C7: the exception of an execute_tool that fails is an MCPClientError.
MCPClientErrors ==
    {"MCPClientError", "MCPServerConnectionError", "MCPToolExecutionError"}

C7_FailureIsMCPClientError ==
    \A t \in Tasks :
        (Returned(t, "execute_tool") /\ task[t].outcome = "raise")
            => task[t].value \in MCPClientErrors

\* C8: list_tools, execute_tool, get_server_capabilities and health_check of a
\* server id without a connection raise the not-connected error
\* (MCPServerConnectionError); none returns a value.
LookupOps == {"list_tools", "execute_tool", "get_server_capabilities", "health_check"}

C8_UnconnectedRaises ==
    \A t \in Tasks :
        (task[t].pc = "done" /\ task[t].op \in LookupOps /\ ~task[t].present)
            => /\ task[t].outcome = "raise"
               /\ task[t].value = "MCPServerConnectionError"

\* C9: a disconnect of a server id without a connection returns without
\* raising and changes neither active_connections nor server_processes.
C9_DisconnectAbsentIsNoOp ==
    [][\A t \in Tasks :
          (/\ task[t].pc = "idle"
           /\ task'[t].pc = "done"
           /\ task'[t].op = "disconnect_from_server"
           /\ ~task'[t].present)
              => /\ task'[t].outcome = "return"
                 /\ UNCHANGED <<active_connections, server_processes>>]_vars

\* C10: when a disconnect of a server id that had a connection returns, the
\* id has no entry, the entry's process is not alive and its temp directory
\* does not exist.
C10_DisconnectReleases ==
    \A t \in Tasks :
        (Returned(t, "disconnect_from_server") /\ task[t].present)
            => /\ ~Connected(task[t].sid)
               /\ task[t].process # 0 => ~procs[task[t].process].alive
               /\ task[t].temp_dir # 0 => ~dirs[task[t].temp_dir]

\* C11: no disconnect_from_server ends by raising, and a
\* disconnect_from_server called again on the same server id as the previous
\* one returns is over at once and changes neither the registry, nor a
\* process, nor a directory.
C11_DisconnectIdempotent ==
    [][\A t \in Tasks :
          /\ (task'[t].pc = "done" /\ task'[t].op = "disconnect_from_server")
                => task'[t].outcome = "return"
          /\ (/\ Returned(t, "disconnect_from_server")
              /\ task'[t].pc # "idle"
              /\ \A u \in Tasks \ {t} : task'[u] = task[u])
                => /\ task'[t].pc = "done"
                   /\ task'[t].op = "disconnect_from_server"
                   /\ task'[t].sid = task[t].sid
                   /\ UNCHANGED <<active_connections, server_processes, procs, dirs>>]_vars

\* A disconnect of an id torn down before has returned.
C11_Witness ==
    \E t \in Tasks :
        /\ Returned(t, "disconnect_from_server")
        /\ ~task[t].present
        /\ \E p \in Pids : procs[p].sid = task[t].sid /\ ~procs[p].alive
        /\ \E d \in 1..Len(dirs) : ~dirs[d]

\* C12: when cleanup returns, no server id has a connection or a
\* server_processes entry, and no temp directory that a connect made exists.
C12_CleanupEmptiesAll ==
    \A t \in Tasks :
        Returned(t, "cleanup")
            => /\ \A sid \in ServerIds :
                     ~Connected(sid) /\ server_processes[sid] = 0
               /\ \A d \in 1..Len(dirs) : ~dirs[d]

\* A health_check of a stdio connection whose process had exited has returned.
HealthCheckedExited(t) ==
    /\ Returned(t, "health_check")
    /\ task[t].process # 0
    /\ ~procs[task[t].process].alive

\* C13: a health_check of a stdio connection whose process has exited returns
\* status "dead" (healthy False), and writes nothing to the process.
C13_ExitedProcessIsDead ==
    \A t \in Tasks :
        HealthCheckedExited(t)
            => /\ task[t].outcome = "return"
               /\ task[t].value = "dead"

\* C14: when a health_check of a connection whose process has exited returns,
\* the server id has no connection and no server_processes entry.
C14_ExitedProcessDisconnects ==
    \A t \in Tasks :
        HealthCheckedExited(t)
            => /\ ~Connected(task[t].sid)
               /\ server_processes[task[t].sid] = 0

\* C15: when a connect of an npm server ends because the install failed, it
\* reports the failure, no process was spawned for it, it made no connection,
\* and the temp directory it made no longer exists.
C15_FailedInstallCleansUp ==
    \A t \in Tasks :
        (/\ Returned(t, "connect_to_server")
         /\ task[t].type = "npm"
         /\ task[t].process = 0)
            => /\ task[t].outcome = "return"
               /\ task[t].value = "False"
               /\ ~task[t].present => ~Connected(task[t].sid)
               /\ ~dirs[task[t].temp_dir]

\* C16: when a connect of an npm or pip server ends in failure after it
\* spawned the process, the process is not alive, the temp directory does not
\* exist, and neither active_connections nor server_processes holds the
\* process for the server id.
C16_FailedHandshakeCleansUp ==
    \A t \in Tasks :
        (/\ Returned(t, "connect_to_server")
         /\ task[t].type \in {"npm", "pip"}
         /\ task[t].process # 0
         /\ task[t].value = "False")
            => /\ ~procs[task[t].process].alive
               /\ task[t].temp_dir # 0 => ~dirs[task[t].temp_dir]
               /\ active_connections[task[t].sid].process # task[t].process
               /\ server_processes[task[t].sid] # task[t].process

\* C17: an execute_tool that ends while a disconnect_from_server of the
\* process it wrote its request to is under way ends by raising, or returns
\* what it made of a response line the server wrote.
C17_NoResultFromTornDownProcess ==
    \A t \in Tasks :
        (/\ Returned(t, "execute_tool")
         /\ task[t].process # 0
         /\ \E u \in Tasks \ {t} :
               /\ task[u].op = "disconnect_from_server"
               /\ task[u].pc = "wait"
               /\ task[u].process = task[t].process)
            => \/ task[t].outcome = "raise"
               \/ task[t].line # 0

\* The request a call that has just returned wrote last: with one caller, the
\* last request written to the process.
OwnRequest(t) == procs[task[t].process].nreq

\* C18: a call on a stdio connection that takes its value from a response
\* line takes it from the answer to the request it wrote itself, not from the
\* late answer to a request of an earlier call or attempt that timed out.
C18_NoLateResponseTaken ==
    \A t \in Callers :
        (/\ task[t].pc = "done"
         /\ task[t].op \in {"execute_tool", "list_tools", "get_server_capabilities"}
         /\ task[t].line # 0)
            => task[t].line = OwnRequest(t)

\* C19: the result field an execute_tool on a stdio connection returns is
\* the one of the response line that answers the request of the attempt that
\* returned it.
C19_ResultOfMatchingResponse ==
    \A t \in Callers :
        (/\ Returned(t, "execute_tool")
         /\ task[t].process # 0
         /\ task[t].outcome = "return"
         /\ task[t].value = "result")
            => task[t].line = OwnRequest(t)

\* C20: a connect of a server of the http branch returns True exactly when
\* GET {url}/health answered with status 200; when it returns True the server
\* id's connection is of type http, when it returns False active_connections
\* is as it was; and no step of it spawns a process, sets server_processes or
\* makes a temp directory.
C20_HttpConnect ==
    [][\A t \in Tasks :
          (/\ task'[t] # task[t]
           /\ task'[t].op = "connect_to_server"
           /\ task'[t].type = "http")
              => /\ UNCHANGED <<server_processes, procs, dirs>>
                 /\ task'[t].pc = "done" =>
                       /\ task'[t].outcome = "return"
                       /\ task'[t].value = "True" <=> task'[t].log = <<"200">>
                       /\ task'[t].value \in {"True", "False"}
                       /\ task'[t].value = "True" =>
                             active_connections'[task'[t].sid] =
                                 [type |-> "http", process |-> 0, temp_dir |-> 0]
                       /\ task'[t].value = "False" => UNCHANGED active_connections]_vars

\* A connect of the http branch has returned True, and another False on an
\* answer other than 200.
C20_Witness ==
    \E t \in Tasks :
        /\ Returned(t, "connect_to_server")
        /\ task[t].type = "http"
        /\ task[t].value = "True"
        /\ task[t].log = <<"200">>
        /\ active_connections[task[t].sid].type = "http"

\* C21: a get_server_capabilities of an http connection whose POST to
\* /tools/list was answered with status 200 returns connected = True, the
\* tool list the answer carried, and that list's length as tool_count.
C21_HttpCapabilities ==
    \A t \in Tasks :
        (Returned(t, "get_server_capabilities") /\ task[t].log = <<"200">>)
            => /\ task[t].outcome = "return"
               /\ task[t].value = "connected"
               /\ task[t].tools = task[t].served
               /\ task[t].tool_count = Len(task[t].served)

C21_Witness ==
    \E t \in Tasks :
        /\ Returned(t, "get_server_capabilities")
        /\ task[t].log = <<"200">>
        /\ task[t].value = "connected"
        /\ task[t].tools = <<"read_file", "write_file">>
        /\ task[t].tool_count = 2

\* C22: a connect of a subprocess server (npm, pip, github) that returns
\* True, and so has put the server id into active_connections, has read a
\* response line to the initialize request it sent.
C22_EntryOnlyAfterHandshake ==
    \A t \in Tasks :
        (/\ Returned(t, "connect_to_server")
         /\ task[t].type \in StdioTypes
         /\ task[t].value = "True")
            => task[t].line # 0

\* An install or clone command of t's connect exited with a nonzero status.
StepFailed(t) == \E i \in 1..Len(task[t].log) : task[t].log[i] = "nonzero"

\* C23: a connect of a subprocess server one of whose install or clone
\* commands exited nonzero spawns no server process, returns False, and has
\* removed its temp directory when it returns.
C23_SpawnOnlyAfterInstall ==
    \A t \in Tasks :
        (/\ task[t].op = "connect_to_server"
         /\ task[t].type \in StdioTypes
         /\ StepFailed(t))
            => /\ task[t].process = 0
               /\ task[t].pc = "done" =>
                     /\ task[t].value = "False"
                     /\ task[t].temp_dir # 0 => ~dirs[task[t].temp_dir]

\* C24: the branch a connect takes is given by its descriptor alone, whatever
\* the registry holds: npm when package_manager is npm; else pip when it is
\* pip; else github when discovered_from is github; else http when url starts
\* with http; else none, and then it returns False having made no directory
\* and spawned no process.
C24_StrategyByDescriptor ==
    \A t \in Tasks :
        task[t].op = "connect_to_server" =>
            LET d == task[t].server
            IN  /\ task[t].type =
                       IF d.package_manager = "npm" THEN "npm"
                       ELSE IF d.package_manager = "pip" THEN "pip"
                       ELSE IF d.discovered_from = "github" THEN "github"
                       ELSE IF d.url_http THEN "http"
                       ELSE "none"
                /\ task[t].type = "none" =>
                       /\ task[t].pc = "done"
                       /\ task[t].value = "False"
                       /\ task[t].process = 0
                       /\ task[t].temp_dir = 0

\* A connect of a server id that has a connection, with a descriptor that
\* passes the tests for pip, github and http, has taken the pip branch.
C24_Witness ==
    \E t \in Tasks :
        /\ task[t].op = "connect_to_server"
        /\ task[t].present
        /\ task[t].server.package_manager = "pip"
        /\ task[t].server.discovered_from = "github"
        /\ task[t].server.url_http
        /\ task[t].type = "pip"

\* C25: an execute_tool makes at most 3 attempts.  An attempt writes its one
\* tools/call request before it waits for the response, so the request of an
\* attempt that is waiting is at most the third.  The call has ended once 3
\* attempts are over, and it has ended with an exception when the third one
\* failed.
AttemptFailures == {"not_connected", "transport", "timeout", "error"}

C25_AtMostThreeAttempts ==
    \A t \in Tasks :
        task[t].op = "execute_tool" =>
            /\ Len(task[t].log) <= 3
            /\ task[t].pc = "exec_read" => Len(task[t].log) + 1 <= 3
            /\ Len(task[t].log) = 3 =>
                   /\ task[t].pc = "done"
                   /\ task[t].log[3] \in AttemptFailures =>
                          task[t].outcome = "raise"

\* An execute_tool on a stdio connection has written 3 requests, each of its
\* attempts has timed out, and it has raised.
C25_Witness ==
    \E t \in Tasks :
        /\ Returned(t, "execute_tool")
        /\ task[t].log = <<"timeout", "timeout", "timeout">>
        /\ task[t].outcome = "raise"
        /\ procs[task[t].process].nreq >= 3

\* C26: an execute_tool on a server id that has no connection fails on its
\* first attempt: it does not sleep and makes no second attempt.
C26_UnconnectedIsNotRetried ==
    \A t \in Tasks :
        (/\ task[t].op = "execute_tool"
         /\ Len(task[t].log) >= 1
         /\ task[t].log[1] = "not_connected")
            => /\ task[t].pc = "done"
               /\ Len(task[t].log) = 1
               /\ task[t].outcome = "raise"

\* C27: the step in which a tools/call or a tools/list times out changes
\* nothing but the caller's frame: the registry, the processes (none is sent a
\* signal) and the directories are as before.  The step in which the
\* handshake times out terminates the process, and the connect returns False
\* without an entry for it.
C27_TimeoutLeavesConnection ==
    [][\A t \in Tasks :
          LET f == task[t]
              g == task'[t]
          IN  /\ (/\ f.pc \in {"exec_read", "list_read"}
                  /\ g.log = Append(f.log, "timeout"))
                     => /\ active_connections' = active_connections
                        /\ server_processes' = server_processes
                        /\ procs' = procs
                        /\ dirs' = dirs
              /\ (/\ f.pc = "handshake"
                  /\ g.pc = "done"
                  /\ g.line = 0
                  /\ procs[f.process].alive)
                     => /\ procs'[f.process].signalled
                        /\ g.value = "False"
                        /\ active_connections'[f.sid].process # f.process]_vars

\* An attempt of an execute_tool has timed out, and the server id has its
\* connection, with the process running, not signalled, and the directory.
C27_Witness ==
    \E t \in Tasks :
        /\ task[t].op = "execute_tool"
        /\ task[t].pc \in {"backoff", "done"}
        /\ task[t].log # <<>>
        /\ task[t].log[Len(task[t].log)] = "timeout"
        /\ Connected(task[t].sid)
        /\ active_connections[task[t].sid].process = task[t].process
        /\ procs[task[t].process].alive
        /\ ~procs[task[t].process].signalled
        /\ active_connections[task[t].sid].temp_dir # 0
        /\ dirs[active_connections[task[t].sid].temp_dir]

\* C28: a health_check that returns status unhealthy or timeout marks the
\* connection: the client's record of the connection is no longer what it
\* was, while its type, process and directory are, and the entry of
\* server_processes, the processes and the directories are as before.
C28_UnhealthyMarksDegraded ==
    [][\A t \in Tasks :
          (/\ task[t].pc = "idle"
           /\ task'[t].op = "health_check"
           /\ task'[t].value \in {"unhealthy", "timeout"})
              => LET sid == task'[t].sid
                 IN  /\ active_connections'[sid] # active_connections[sid]
                     /\ active_connections'[sid].type = active_connections[sid].type
                     /\ active_connections'[sid].process =
                            active_connections[sid].process
                     /\ active_connections'[sid].temp_dir =
                            active_connections[sid].temp_dir
                     /\ server_processes' = server_processes
                     /\ procs' = procs
                     /\ dirs' = dirs]_vars

\* C29: the status a health_check returns is one of healthy, unhealthy,
\* timeout, dead, error.
C29_HealthStatuses ==
    \A t \in Tasks :
        Returned(t, "health_check") =>
            task[t].value \in {"healthy", "unhealthy", "timeout", "dead", "error"}

\* C30: the requests written to a running process carry ids that differ from
\* one another: as many ids as requests.
C30_UniqueRequestIds ==
    \A p \in 1..Len(procs) :
        procs[p].alive => Cardinality(procs[p].ids) = procs[p].nreq

\* C31: in the teardown of a stdio connection by disconnect_from_server or
\* cleanup, the process is killed only after it was asked to terminate and
\* was still running when the wait ended; a temp directory is removed only in
\* a step after which the process of its teardown is not alive; the registry
\* entry goes only in a step after which its process is not alive and its
\* directory is gone; and when the teardown ends its process is not alive.
TeardownOps == {"disconnect_from_server", "cleanup"}

C31_TeardownOrder ==
    [][/\ \A t \in Tasks :
             LET f == task[t]
                 g == task'[t]
             IN  /\ (/\ f.pc = "wait"
                     /\ g # f
                     /\ procs[f.process].alive
                     /\ ~procs'[f.process].alive)
                        => procs[f.process].signalled
                 /\ (/\ g.op \in TeardownOps
                     /\ g.pc \in {"done", "cleanup_loop"}
                     /\ g # f
                     /\ g.process # 0)
                        => ~procs'[g.process].alive
       /\ \A d \in 1..Len(dirs) :
             (dirs[d] /\ ~dirs'[d])
                => \E t \in Tasks :
                      /\ task[t].pc = "wait"
                      /\ task[t].temp_dir = d
                      /\ ~procs'[task[t].process].alive
       /\ \A sid \in ServerIds :
             LET c == active_connections[sid]
             IN  (c.type \in StdioTypes /\ active_connections'[sid] = NoConnection)
                    => /\ ~procs'[c.process].alive
                       /\ c.temp_dir # 0 => ~dirs'[c.temp_dir]]_vars

\* A disconnect of a stdio connection has returned after its wait: the
\* process is not alive, the directory is gone and the entry is gone.
C31_Witness ==
    \E t \in Tasks :
        /\ Returned(t, "disconnect_from_server")
        /\ task[t].present
        /\ task[t].process # 0
        /\ ~procs[task[t].process].alive
        /\ task[t].temp_dir # 0
        /\ ~dirs[task[t].temp_dir]
        /\ active_connections[task[t].sid] = NoConnection
        /\ server_processes[task[t].sid] = 0

\* C32: a cleanup that has begun returns, without raising.  It begins with
\* every connected server id visited or still to visit, an id leaves the ids
\* to visit only as the one whose disconnect begins, and none is left to
\* visit when it returns.
C32_CleanupCompletes ==
    /\ [][\A t \in Tasks :
             LET f == task[t]
                 g == task'[t]
                 visited == IF g.sid = 0 THEN {} ELSE {g.sid}
             IN  /\ (f.pc = "idle" /\ g.op = "cleanup")
                        => g.todo \cup visited = {sid \in ServerIds : Connected(sid)}
                 /\ (f.op = "cleanup" /\ g.op = "cleanup")
                        => f.todo \ g.todo \subseteq visited
                 /\ (g.op = "cleanup" /\ g.pc = "done")
                        => g.outcome = "return" /\ g.todo = {}]_vars
    /\ \A t \in Tasks : (task[t].op = "cleanup") ~> Returned(t, "cleanup")

\* A cleanup has returned whose disconnect of one server id failed, the
\* process having exited before, and which went on to the other server id.
C32_Witness ==
    \E t \in Tasks, sid \in ServerIds :
        /\ Returned(t, "cleanup")
        /\ task[t].outcome = "return"
        /\ task[t].sid # 0
        /\ task[t].sid # sid
        /\ ~Connected(task[t].sid)
        /\ active_connections[sid].type \in StdioTypes
        /\ ~procs[active_connections[sid].process].alive

\* C33: a step of a connect_to_server changes active_connections only as it
\* returns True, and it returns True only with an entry for its server id in
\* place, which for npm, pip and github holds the process that this call
\* spawned; a call that returns False has changed no entry.
C33_TrueMeansRegistered ==
    [][\A t \in Tasks :
          LET f == task[t]
              g == task'[t]
          IN  (g.op = "connect_to_server" /\ g # f) =>
                  /\ (f.process = 0 /\ g.process # 0)
                        => /\ Len(procs') = Len(procs) + 1
                           /\ g.process = Len(procs')
                  /\ (f.process # 0) => g.process = f.process
                  /\ IF g.pc = "done" /\ g.value = "True"
                     THEN /\ active_connections'[g.sid].type = g.type
                          /\ g.type # "none"
                          /\ g.type \in StdioTypes =>
                                /\ g.process # 0
                                /\ active_connections'[g.sid].process = g.process
                          /\ \A sid \in ServerIds \ {g.sid} :
                                active_connections'[sid] = active_connections[sid]
                     ELSE active_connections' = active_connections]_vars

\* A connect of an npm server has returned True, and the entry of its server
\* id holds the process it spawned.
C33_Witness ==
    \E t \in Tasks :
        /\ Returned(t, "connect_to_server")
        /\ task[t].value = "True"
        /\ task[t].type = "npm"
        /\ task[t].process # 0
        /\ active_connections[task[t].sid].process = task[t].process
        /\ active_connections[task[t].sid].type = "npm"

\* C34: when no call is in progress, every server id with an entry in
\* server_processes has a connection in active_connections, and the two
\* entries hold the same process.
C34_MapsConsistent ==
    Quiescent =>
        \A sid \in ServerIds :
            server_processes[sid] # 0 =>
                /\ Connected(sid)
                /\ active_connections[sid].process = server_processes[sid]

\* C35: an execute_tool on a stdio connection that returns has, in its last
\* attempt, read a response line with a result key, and returns that result:
\* after end of file, or a line with neither a result nor an error key, the
\* attempt has failed.
C35_ReturnsOnlyResult ==
    \A t \in Tasks :
        (/\ Returned(t, "execute_tool")
         /\ task[t].process # 0
         /\ task[t].outcome = "return")
            => /\ task[t].log[Len(task[t].log)] = "result"
               /\ task[t].value = "result"
               /\ task[t].line # 0

\* C36: no list_tools, execute_tool or health_check begins by finding a
\* stdio connection whose process has been asked to terminate, and no request
\* is written to a process that has been asked to terminate.
C36_NoCallOnTornDown ==
    [][/\ \A t \in Tasks :
             LET g == task'[t]
                 c == active_connections[g.sid]
             IN  (/\ task[t].pc = "idle"
                  /\ g.op \in {"list_tools", "execute_tool", "health_check"}
                  /\ g.present
                  /\ c.type \in StdioTypes)
                     => ~procs[c.process].signalled
       /\ \A p \in Pids :
             procs'[p].nreq > procs[p].nreq => ~procs[p].signalled]_vars

C38_OtherServersUntouched ==
    [][\A t \in Tasks :
          (task'[t] # task[t] /\ task'[t].pc # "idle") =>
              \A sid \in ServerIds \ {task'[t].sid} :
                  /\ active_connections'[sid] = active_connections[sid]
                  /\ server_processes'[sid] = server_processes[sid]
                  /\ \A p \in Pids : procs[p].sid = sid => procs'[p] = procs[p]
                  /\ active_connections[sid].temp_dir # 0 =>
                         dirs'[active_connections[sid].temp_dir]
                             = dirs[active_connections[sid].temp_dir]]_vars

\* A disconnect of a stdio connection of one server id has returned, and
\* another server id has its stdio connection, with its process running and
\* its directory in place.
C38_Witness ==
    \E t \in Tasks, sid \in ServerIds :
        /\ Returned(t, "disconnect_from_server")
        /\ task[t].present
        /\ task[t].temp_dir # 0
        /\ ~dirs[task[t].temp_dir]
        /\ sid # task[t].sid
        /\ active_connections[sid].type \in StdioTypes
        /\ procs[active_connections[sid].process].alive
        /\ dirs[active_connections[sid].temp_dir]

====
